---- MODULE Spec2Model ----
(***************************************************************************)
(* Model of the lum service orchestrator (service_manager.rs): the         *)
(* per-service status machine, the background-task handle map, the fair    *)
(* read/write locks that guard them, and the concurrent start_service /    *)
(* stop_service calls and Watchdog tasks that act on them.                 *)
(***************************************************************************)
EXTENDS Integers, Sequences, FiniteSets, TLC

\* ------------------------------------------------------------------ bounds
\* Total number of start_service / stop_service calls issued in one run.
MaxCalls == 3

\* Number of with_service calls made on one builder.
MaxOffers == 3

\* Number of start_services / stop_services calls issued in one run.
MaxBatches == 2

\* Number of hooks appended to one Watchdog.
MaxHooks == 3

\* Number of subscribers ever added to one Event (subscribe + open_channel)
\* and number of dispatch calls made on it, by a single caller.
MaxSubscribers == 3

MaxDispatches == 2

\* The same, when two callers use the Event concurrently.
MaxRacingSubscribers == 2

MaxRacingDispatches == 2

\* ------------------------------------------------------------ configuration
\* The sealed registry (ServiceManager.services), in registration order.
services == <<"a", "b">>

\* Every service object a caller may pass in; "u" is not registered.
AllServices == {"a", "b", "u"}

\* Services whose task() returns Some(background unit of work).
HasTask == {"a"}

\* Tasks that call into the orchestrator concurrently.
Callers == {"c1", "c2"}

\* The task spawned at line 159 by caller c for service s.
WatchdogId(c, s) == "wd_" \o c \o "_" \o s

Watchdogs == {WatchdogId(c, s) : c \in Callers, s \in HasTask}

Procs == Callers \cup Watchdogs

\* The lock of the handle map (ServiceManager.background_tasks).
TasksLock == "background_tasks"

LockIds == AllServices \cup {TasksLock}

\* Tasks that call into one Event concurrently.
EventCallers == {"e1", "e2"}

\* Subscribers are named by the order in which they are pushed on the list.
SubscriberIds == 1..MaxSubscribers

\* The buffer sizes open_channel is called with.
BufferSizes == {1}

\* The variants of Priority.
Priorities == {"Essential", "Optional"}

\* A service object: its id and which of the objects with that id it is.
Service(i, n) == [id |-> i, inst |-> n]

\* The objects a builder may be handed: two distinct objects per id.
Offered == {Service(i, n) : i \in AllServices, n \in 1..2}

\* The service list of the orchestrator of Spec, as objects.
SealedServices == [i \in 1..Len(services) |-> Service(services[i], 1)]

\* The result-handlers a Watchdog may be given.
HookNames == {"h1", "h2"}

\* No query has been made.
NoQuery == [kind |-> "none"]

\* ------------------------------------------------------------------ Status
\* The variants of Status. The boxed error that FailedToStart, FailedToStop
\* and RuntimeError carry is never read by the orchestrator; the routine
\* outcome that produced it is kept per call in outcome.
Statuses ==
    {"Stopped", "Starting", "Started", "Stopping", "FailedToStart",
     "FailedToStop", "RuntimeError"}

FailedKinds == {"FailedToStart", "FailedToStop", "RuntimeError"}

\* What a start or stop routine under timeout(10s) can yield.
Outcomes == {"ok", "error", "timeout"}

\* How the wrapped background unit of work can end.
TaskResults == {"ok", "error"}

\* ------------------------------------------------- tokio::sync::RwLock
\* A lock is [r: read holds per task, w: write holder, q: FIFO of waiters].
\* tokio's RwLock is fair: a request is granted at once only when nobody is
\* queued and the mode is compatible; released permits go to the queue head.
FreeLock == [r |-> [p \in Procs |-> 0], w |-> "none", q |-> <<>>]

CanGrant(l, m) == l.w = "none" /\ (m = "w" => \A p \in DOMAIN l.r : l.r[p] = 0)

Grant(l, p, m) == IF m = "r" THEN [l EXCEPT !.r[p] = @ + 1] ELSE [l EXCEPT !.w = p]

RECURSIVE Drain(_)
Drain(l) ==
    IF l.q = <<>> THEN l
    ELSE IF CanGrant(l, Head(l.q).m)
         THEN Drain(Grant([l EXCEPT !.q = Tail(@)], Head(l.q).p, Head(l.q).m))
         ELSE l

Acquire(l, p, m) ==
    IF l.q = <<>> /\ CanGrant(l, m)
    THEN Grant(l, p, m)
    ELSE [l EXCEPT !.q = Append(@, [p |-> p, m |-> m])]

Release(l, p, m) ==
    Drain(IF m = "r" THEN [l EXCEPT !.r[p] = @ - 1] ELSE [l EXCEPT !.w = "none"])

Lock(lk, id, p, m) == [lk EXCEPT ![id] = Acquire(@, p, m)]

Unlock(lk, id, p, m) == [lk EXCEPT ![id] = Release(@, p, m)]

\* ------------------------------------------------------------------- state
VARIABLES
    status,            \* service id -> Status variant (ServiceInfo.status)
    background_tasks,  \* ids with a tracked JoinHandle
    locks,             \* lock id -> lock state
    pc,                \* caller -> position in start_service / stop_service
    op,                \* caller -> operation in progress
    svc,               \* caller -> service passed to the operation
    idx,               \* caller -> loop index inside manages_service
    result,            \* caller -> value returned by the last call
    did,               \* caller -> effects of the call so far
    seen,              \* caller -> status kind the call's status check read
    stopped0,          \* caller -> the status was Stopped when the call was made
    tracked0,          \* caller -> handle tracked when the call was made
    outcome,           \* caller -> result of the routine the call awaited
    wd,                \* <<caller, service>> -> state of the spawned Watchdog
    calls              \* number of calls issued so far

\* The builder and the read-only queries of the sealed orchestrator.
VARIABLES
    registry,          \* the service list (builder's, then the orchestrator's)
    priority,          \* service id -> Priority (ServiceInfo.priority)
    offers,            \* every service handed to with_service so far, in order
    sealed,            \* build() has consumed the builder
    query              \* the last query made and the value it returned

rvars == <<registry, priority, offers, sealed, query>>

\* One Event, the receivers of its queue subscribers and its callers.
VARIABLES
    subscribers,       \* Event.subscribers: the list guarded by the Mutex
    remove_subscriber_on_error,   \* Event.remove_subscriber_on_error
    mutex,             \* lock state of Event.subscribers
    channels,          \* subscriber id -> bounded mpsc channel
    received,          \* subscriber id -> values enqueued to it / it was called with
    epc,               \* event caller -> position in its call
    buffer,            \* event caller -> buffer size of its open_channel call
    data,              \* event caller -> value being dispatched
    index,             \* event caller -> loop position of dispatch (from 1)
    errors,            \* event caller -> dispatch's errors so far
    subscribers_to_remove,   \* event caller -> dispatch's indices to evict
    tried,             \* event caller -> deliveries the dispatch has attempted
    returned,          \* the caller and value of the return this step made
    nsubs,             \* number of subscribers pushed so far
    ndispatch,         \* number of dispatch calls made so far
    inflight,          \* event caller -> values whose dispatch began before its
                       \*   subscribe / open_channel call and has not returned
    barred             \* subscriber id -> the same, for the call that added it

evars == <<subscribers, remove_subscriber_on_error, mutex, channels, received,
           epc, buffer, data, index, errors, subscribers_to_remove, tried,
           returned, nsubs, ndispatch, inflight, barred>>

\* The callers of start_services / stop_services.
VARIABLES
    bop,               \* caller -> batch operation in progress
    bidx,              \* caller -> position of the loop over services
    results,           \* caller -> start_services' results so far
    invoked,           \* caller -> the calls the batch operation has made
    batches            \* number of batch operations issued so far

bvars == <<bop, bidx, results, invoked, batches>>

\* One Watchdog, taken on its own.
VARIABLES
    work,              \* the wrapped unit of work: pending, or its terminal result
    hooks,             \* the appended result-handlers, in registration order
    wpc,               \* position of the Watchdog: new, work, hooks, in_hook, done
    hook_index,        \* position of run() in the hook list
    hook_calls,        \* the hook invocations made, with the result passed
    hook_failures      \* positions of the hooks that failed

wvars == <<work, hooks, wpc, hook_index, hook_calls, hook_failures>>

\* The state outside the start_service / stop_service machinery.
aux == <<rvars, evars, bvars, wvars>>

mvars == <<status, background_tasks, locks, pc, op, svc, idx, result, did,
           seen, stopped0, tracked0, outcome, wd, calls>>

vars == <<mvars, aux>>

\* p is suspended in a lock's wait queue.
Waiting(p) == \E id \in LockIds : \E i \in 1..Len(locks[id].q) : locks[id].q[i].p = p

\* The builder and query state of an orchestrator built from services.
RegistryIdle ==
    /\ registry = SealedServices
    /\ priority = [s \in AllServices |-> "Essential"]
    /\ offers = SealedServices
    /\ sealed = TRUE
    /\ query = NoQuery

\* No call made, no lock held, no Watchdog spawned.
ManagerIdle ==
    /\ background_tasks = {}
    /\ locks = [id \in LockIds |-> FreeLock]
    /\ pc = [c \in Callers |-> "idle"]
    /\ op = [c \in Callers |-> "none"]
    /\ svc = [c \in Callers |-> "none"]
    /\ idx = [c \in Callers |-> 0]
    /\ result = [c \in Callers |-> "none"]
    /\ did = [c \in Callers |-> {}]
    /\ seen = [c \in Callers |-> "none"]
    /\ stopped0 = [c \in Callers |-> FALSE]
    /\ tracked0 = [c \in Callers |-> FALSE]
    /\ outcome = [c \in Callers |-> "none"]
    /\ wd = [w \in Callers \X HasTask |-> "unspawned"]
    /\ calls = 0

\* tokio::sync::Mutex hands the lock over in request order, like the
\* exclusive mode of the RwLock above.
FreeMutex == [r |-> [c \in EventCallers |-> 0], w |-> "none", q |-> <<>>]

\* No channel has been created for the id.
NoChannel == [state |-> "none", cap |-> 0, buf |-> <<>>]

\* The last step was not the return of a call on the Event.
NoReturn == [caller |-> "none"]

\* Event::new(name, flag), before any call.
EventNew(flag) ==
    /\ subscribers = <<>>
    /\ remove_subscriber_on_error = flag
    /\ mutex = FreeMutex
    /\ channels = [id \in SubscriberIds |-> NoChannel]
    /\ received = [id \in SubscriberIds |-> <<>>]
    /\ epc = [c \in EventCallers |-> "idle"]
    /\ buffer = [c \in EventCallers |-> 0]
    /\ data = [c \in EventCallers |-> 0]
    /\ index = [c \in EventCallers |-> 0]
    /\ errors = [c \in EventCallers |-> <<>>]
    /\ subscribers_to_remove = [c \in EventCallers |-> <<>>]
    /\ tried = [c \in EventCallers |-> <<>>]
    /\ returned = NoReturn
    /\ nsubs = 0
    /\ ndispatch = 0
    /\ inflight = [c \in EventCallers |-> {}]
    /\ barred = [id \in SubscriberIds |-> {}]

\* impl Default for Event: an Event nobody uses.
EventIdle == EventNew(FALSE)

\* No batch operation made.
BatchIdle ==
    /\ bop = [c \in Callers |-> "none"]
    /\ bidx = [c \in Callers |-> 0]
    /\ results = [c \in Callers |-> <<>>]
    /\ invoked = [c \in Callers |-> <<>>]
    /\ batches = 0

\* A Watchdog just created around a unit of work: no hook, not run.
WatchdogNew ==
    /\ work = "pending"
    /\ hooks = <<>>
    /\ wpc = "new"
    /\ hook_index = 0
    /\ hook_calls = <<>>
    /\ hook_failures = {}

Init ==
    /\ RegistryIdle
    /\ EventIdle
    /\ BatchIdle
    /\ WatchdogNew
    /\ status \in {f \in [AllServices -> {"Stopped", "Started"}] :
                      \A i \in 1..Len(services) : f[services[i]] = "Stopped"}
    /\ ManagerIdle

\* ----------------------------------------------------------- pure helpers
\* Variant: every id compares equal.
IdMatchesAny(i, id) == i \in 1..Len(services)

\* manages_service line 87: the id comparison of one loop iteration.
IdMatches(i, id) == services[i] = id

\* Variant: the lookup never finds the key.
KnownTaskNever(tasks, id) == FALSE

\* check_no_known_background_task line 381.
KnownTask(tasks, id) == id \in tasks

\* Variant: a service that failed to start counts as stopped (implicit retry).
IsStoppedOrFailedToStart(st) == st \in {"Stopped", "FailedToStart"}

\* check_is_service_stopped lines 397-400.
IsStopped(st) == st = "Stopped"

\* Variant: a crashed service is stopped like a started one.
IsStartedOrCrashed(st) == st \in {"Started", "RuntimeError"}

\* stop_service line 189.
IsStarted(st) == st = "Started"

\* Variant: start_service takes the service lock shared.
StartLockModeShared == "r"

\* start_service line 103: service.write().
StartLockMode == "w"

\* Variant: the timeout arm leaves the status as it is.
BootStatusNoTimeoutArm(o) ==
    CASE o = "ok" -> "Started"
      [] o = "error" -> "FailedToStart"
      [] o = "timeout" -> "Starting"

\* boot_service lines 413-430: the status written for a start outcome.
BootStatus(o) ==
    CASE o = "ok" -> "Started"
      [] o = "error" -> "FailedToStart"
      [] o = "timeout" -> "FailedToStart"

\* Variant: a stop routine that times out counts as stopped.
StopStatusTimeoutStopped(o) ==
    CASE o = "ok" -> "Stopped"
      [] o = "error" -> "FailedToStop"
      [] o = "timeout" -> "Stopped"

\* stop_service lines 205-227: the status written for a stop outcome.
StopStatus(o) ==
    CASE o = "ok" -> "Stopped"
      [] o = "error" -> "FailedToStop"
      [] o = "timeout" -> "FailedToStop"

\* Watchdog hook lines 128-155: the status written for a task result.
HookStatus(r) ==
    CASE r = "ok" -> "RuntimeError"
      [] r = "error" -> "RuntimeError"

\* A call returns v: the caller is back in its own code.
Return(c, v) ==
    /\ pc' = [pc EXCEPT ![c] = "ret"]
    /\ result' = [result EXCEPT ![c] = v]

\* Entry of a call: fresh per-call record.
Begin(c, o, s) ==
    /\ pc[c] \in {"idle", "ret"}
    /\ op' = [op EXCEPT ![c] = o]
    /\ svc' = [svc EXCEPT ![c] = s]
    /\ idx' = [idx EXCEPT ![c] = 1]
    /\ result' = [result EXCEPT ![c] = "none"]
    /\ did' = [did EXCEPT ![c] = {}]
    /\ seen' = [seen EXCEPT ![c] = "none"]
    /\ stopped0' = [stopped0 EXCEPT ![c] = (status[s] = "Stopped")]
    /\ tracked0' = [tracked0 EXCEPT ![c] = s \in background_tasks]
    /\ outcome' = [outcome EXCEPT ![c] = "none"]
    /\ pc' = [pc EXCEPT ![c] = "managed"]

\* A call made directly by a caller; MaxCalls of them are made in a run.
Enter(c, o, s) ==
    /\ calls < MaxCalls
    /\ calls' = calls + 1
    /\ Begin(c, o, s)

\* ------------------------------------------------------- start_service
\* line 96: the call begins by requesting a shared lock on the service.
StartService(c, s) ==
    /\ Enter(c, "start_service", s)
    /\ locks' = Lock(locks, s, c, "r")
    /\ UNCHANGED <<status, background_tasks, wd>>
    /\ UNCHANGED aux

\* line 176: stop_service requests a shared lock that the condition of the
\* if holds while manages_service runs.
StopService(c, s) ==
    /\ Enter(c, "stop_service", s)
    /\ locks' = Lock(locks, s, c, "r")
    /\ UNCHANGED <<status, background_tasks, wd>>
    /\ UNCHANGED aux

\* manages_service line 87: request a shared lock on the next registered
\* service (the caller still holds its shared lock on svc[c]).
ManagesRead(c) ==
    /\ pc[c] = "managed"
    /\ ~Waiting(c)
    /\ idx[c] <= Len(services)
    /\ locks' = Lock(locks, services[idx[c]], c, "r")
    /\ pc' = [pc EXCEPT ![c] = "compare"]
    /\ UNCHANGED <<status, background_tasks, op, svc, idx, result, did, seen,
                   stopped0, tracked0, outcome, wd, calls>>
    /\ UNCHANGED aux

\* manages_service lines 87-89: compare ids, drop the temporary guard; on a
\* match start_service goes on to its second check (lines 98-99) and
\* stop_service drops its own shared lock and goes on to line 186.
ManagesCompare(c) ==
    /\ pc[c] = "compare"
    /\ ~Waiting(c)
    /\ IF IdMatches(idx[c], svc[c])
       THEN IF op[c] = "start_service"
            THEN /\ locks' = Unlock(locks, services[idx[c]], c, "r")
                 /\ pc' = [pc EXCEPT ![c] = "check_task"]
            ELSE /\ locks' = Unlock(Unlock(locks, services[idx[c]], c, "r"),
                                    svc[c], c, "r")
                 /\ pc' = [pc EXCEPT ![c] = "stop_write"]
       ELSE /\ locks' = Unlock(locks, services[idx[c]], c, "r")
            /\ pc' = [pc EXCEPT ![c] = "managed"]
    /\ idx' = [idx EXCEPT ![c] = IF IdMatches(idx[c], svc[c]) THEN @ ELSE @ + 1]
    /\ UNCHANGED <<status, background_tasks, op, svc, result, did, seen, stopped0,
                   tracked0, outcome, wd, calls>>
    /\ UNCHANGED aux

\* manages_service line 92 returns false. start_service: lines 370-373 and
\* the ? of line 98 return ServiceNotManaged. stop_service: the condition
\* of line 176 ends, its guard is dropped, the branch of line 177 is taken.
ManagesNotFound(c) ==
    /\ pc[c] = "managed"
    /\ ~Waiting(c)
    /\ idx[c] > Len(services)
    /\ locks' = Unlock(locks, svc[c], c, "r")
    /\ IF op[c] = "start_service"
       THEN Return(c, "ServiceNotManaged")
       ELSE /\ pc' = [pc EXCEPT ![c] = "warn"]
            /\ UNCHANGED result
    /\ UNCHANGED <<status, background_tasks, op, svc, idx, did, seen, stopped0,
                   tracked0, outcome, wd, calls>>
    /\ UNCHANGED aux

\* check_no_known_background_task line 380: shared lock on the handle map.
CheckTaskRead(c) ==
    /\ pc[c] = "check_task"
    /\ locks' = Lock(locks, TasksLock, c, "r")
    /\ pc' = [pc EXCEPT ![c] = "check_status"]
    /\ UNCHANGED <<status, background_tasks, op, svc, idx, result, did, seen,
                   stopped0, tracked0, outcome, wd, calls>>
    /\ UNCHANGED aux

\* lines 381-388 and 99: a tracked handle returns
\* BackgroundTaskAlreadyRunning; otherwise lines 100, 395-400: the status is
\* read under the shared service lock and anything but Stopped returns
\* ServiceNotStopped; line 102 drops the shared lock.
CheckTaskAndStatus(c) ==
    /\ pc[c] = "check_status"
    /\ ~Waiting(c)
    /\ locks' = Unlock(Unlock(locks, TasksLock, c, "r"), svc[c], c, "r")
    /\ IF KnownTask(background_tasks, svc[c])
       THEN /\ Return(c, "BackgroundTaskAlreadyRunning")
            /\ UNCHANGED seen
       ELSE /\ seen' = [seen EXCEPT ![c] = status[svc[c]]]
            /\ IF IsStopped(status[svc[c]])
               THEN /\ pc' = [pc EXCEPT ![c] = "start_write"]
                    /\ UNCHANGED result
               ELSE Return(c, "ServiceNotStopped")
    /\ UNCHANGED <<status, background_tasks, op, svc, idx, did, stopped0, tracked0,
                   outcome, wd, calls>>
    /\ UNCHANGED aux

\* line 103: request the exclusive lock on the service.
StartWrite(c) ==
    /\ pc[c] = "start_write"
    /\ locks' = Lock(locks, svc[c], c, StartLockMode)
    /\ pc' = [pc EXCEPT ![c] = "boot"]
    /\ UNCHANGED <<status, background_tasks, op, svc, idx, result, did, seen,
                   stopped0, tracked0, outcome, wd, calls>>
    /\ UNCHANGED aux

\* lines 105-109, 410-411: under the exclusive lock write Starting and
\* invoke the start routine under its timeout.
Boot(c) ==
    /\ pc[c] = "boot"
    /\ ~Waiting(c)
    /\ status' = [status EXCEPT ![svc[c]] = "Starting"]
    /\ did' = [did EXCEPT ![c] = @ \cup {"status", "routine"}]
    /\ pc' = [pc EXCEPT ![c] = "starting"]
    /\ UNCHANGED <<background_tasks, locks, op, svc, idx, result, seen, stopped0,
                   tracked0, outcome, wd, calls>>
    /\ UNCHANGED aux

\* lines 413-432, 109-159: the routine ends or times out, the status is
\* written, a failure returns FailedToStartService; on success the
\* exclusive lock is dropped and a service with a task gets a Watchdog
\* spawned.
StartRoutineEnds(c, o) ==
    /\ pc[c] = "starting"
    /\ outcome' = [outcome EXCEPT ![c] = o]
    /\ status' = [status EXCEPT ![svc[c]] = BootStatus(o)]
    /\ locks' = Unlock(locks, svc[c], c, StartLockMode)
    /\ IF o # "ok"
       THEN /\ Return(c, "FailedToStartService")
            /\ UNCHANGED <<wd, did>>
       ELSE IF svc[c] \in HasTask
            THEN /\ wd' = [wd EXCEPT ![<<c, svc[c]>>] = "task"]
                 /\ did' = [did EXCEPT ![c] = @ \cup {"spawn"}]
                 /\ pc' = [pc EXCEPT ![c] = "insert_lock"]
                 /\ UNCHANGED result
            ELSE /\ Return(c, "Ok")
                 /\ UNCHANGED <<wd, did>>
    /\ UNCHANGED <<background_tasks, op, svc, idx, seen, stopped0, tracked0, calls>>
    /\ UNCHANGED aux

\* lines 161-163: exclusive lock on the handle map.
InsertLock(c) ==
    /\ pc[c] = "insert_lock"
    /\ locks' = Lock(locks, TasksLock, c, "w")
    /\ pc' = [pc EXCEPT ![c] = "insert_read"]
    /\ UNCHANGED <<status, background_tasks, op, svc, idx, result, did, seen,
                   stopped0, tracked0, outcome, wd, calls>>
    /\ UNCHANGED aux

\* line 164: with the map locked, request a shared lock on the service to
\* read its id.
InsertRead(c) ==
    /\ pc[c] = "insert_read"
    /\ ~Waiting(c)
    /\ locks' = Lock(locks, svc[c], c, "r")
    /\ pc' = [pc EXCEPT ![c] = "insert"]
    /\ UNCHANGED <<status, background_tasks, op, svc, idx, result, did, seen,
                   stopped0, tracked0, outcome, wd, calls>>
    /\ UNCHANGED aux

\* lines 161-164: record the handle; both guards are dropped at the end of
\* the statement.
Insert(c) ==
    /\ pc[c] = "insert"
    /\ ~Waiting(c)
    /\ background_tasks' = background_tasks \cup {svc[c]}
    /\ did' = [did EXCEPT ![c] = @ \cup {"record"}]
    /\ locks' = Unlock(Unlock(locks, svc[c], c, "r"), TasksLock, c, "w")
    /\ pc' = [pc EXCEPT ![c] = "info"]
    /\ UNCHANGED <<status, op, svc, idx, result, seen, stopped0, tracked0, outcome, wd,
                   calls>>
    /\ UNCHANGED aux

\* line 168: shared lock on the service to log its name.
InfoRead(c) ==
    /\ pc[c] = "info"
    /\ locks' = Lock(locks, svc[c], c, "r")
    /\ pc' = [pc EXCEPT ![c] = "info_read"]
    /\ UNCHANGED <<status, background_tasks, op, svc, idx, result, did, seen,
                   stopped0, tracked0, outcome, wd, calls>>
    /\ UNCHANGED aux

\* lines 166-172: log and return Ok.
InfoDone(c) ==
    /\ pc[c] = "info_read"
    /\ ~Waiting(c)
    /\ locks' = Unlock(locks, svc[c], c, "r")
    /\ Return(c, "Ok")
    /\ UNCHANGED <<status, background_tasks, op, svc, idx, did, seen, stopped0,
                   tracked0, outcome, wd, calls>>
    /\ UNCHANGED aux

\* -------------------------------------------------------- stop_service
\* line 177: not managed, shared lock on the service for the warning.
WarnRead(c) ==
    /\ pc[c] = "warn"
    /\ locks' = Lock(locks, svc[c], c, "r")
    /\ pc' = [pc EXCEPT ![c] = "warn_read"]
    /\ UNCHANGED <<status, background_tasks, op, svc, idx, result, did, seen,
                   stopped0, tracked0, outcome, wd, calls>>
    /\ UNCHANGED aux

\* lines 178-183: warn and return.
WarnDone(c) ==
    /\ pc[c] = "warn_read"
    /\ ~Waiting(c)
    /\ locks' = Unlock(locks, svc[c], c, "r")
    /\ Return(c, "unit")
    /\ UNCHANGED <<status, background_tasks, op, svc, idx, did, seen, stopped0,
                   tracked0, outcome, wd, calls>>
    /\ UNCHANGED aux

\* line 186: request the exclusive lock on the service.
StopWrite(c) ==
    /\ pc[c] = "stop_write"
    /\ locks' = Lock(locks, svc[c], c, "w")
    /\ pc' = [pc EXCEPT ![c] = "stop_check"]
    /\ UNCHANGED <<status, background_tasks, op, svc, idx, result, did, seen,
                   stopped0, tracked0, outcome, wd, calls>>
    /\ UNCHANGED aux

\* lines 188-203: under the exclusive lock, a status other than Started
\* returns; otherwise write Stopping and invoke the stop routine under its
\* timeout.
StopCheck(c) ==
    /\ pc[c] = "stop_check"
    /\ ~Waiting(c)
    /\ seen' = [seen EXCEPT ![c] = status[svc[c]]]
    /\ IF IsStarted(status[svc[c]])
       THEN /\ status' = [status EXCEPT ![svc[c]] = "Stopping"]
            /\ did' = [did EXCEPT ![c] = @ \cup {"status", "routine"}]
            /\ pc' = [pc EXCEPT ![c] = "stopping"]
            /\ UNCHANGED <<locks, result>>
       ELSE /\ locks' = Unlock(locks, svc[c], c, "w")
            /\ Return(c, "unit")
            /\ UNCHANGED <<status, did>>
    /\ UNCHANGED <<background_tasks, op, svc, idx, stopped0, tracked0, outcome, wd,
                   calls>>
    /\ UNCHANGED aux

\* lines 205-228: the routine ends or times out, the status is written and
\* the call returns, dropping the exclusive lock.
StopRoutineEnds(c, o) ==
    /\ pc[c] = "stopping"
    /\ outcome' = [outcome EXCEPT ![c] = o]
    /\ status' = [status EXCEPT ![svc[c]] = StopStatus(o)]
    /\ locks' = Unlock(locks, svc[c], c, "w")
    /\ Return(c, "unit")
    /\ UNCHANGED <<background_tasks, op, svc, idx, did, seen, stopped0, tracked0, wd,
                   calls>>
    /\ UNCHANGED aux

\* ------------------------------------------------------------- Watchdog
\* Watchdog::run: the wrapped unit of work ends (Ok or Err) and the hook of
\* line 119 starts: it requests the exclusive lock on the service (line 126).
TaskEnds(c, s) ==
    /\ wd[<<c, s>>] = "task"
    /\ wd' = [wd EXCEPT ![<<c, s>>] = "hook"]
    /\ locks' = Lock(locks, s, WatchdogId(c, s), "w")
    /\ UNCHANGED <<status, background_tasks, pc, op, svc, idx, result, did,
                   seen, stopped0, tracked0, outcome, calls>>
    /\ UNCHANGED aux

\* lines 128-156: under the exclusive lock the hook writes RuntimeError for
\* the result r it was handed, whatever the status is, and ends. Both arms
\* of the match write the same variant, so r is not kept in the state.
Hook(c, s) ==
    /\ wd[<<c, s>>] = "hook"
    /\ ~Waiting(WatchdogId(c, s))
    /\ \E r \in TaskResults : status' = [status EXCEPT ![s] = HookStatus(r)]
    /\ locks' = Unlock(locks, s, WatchdogId(c, s), "w")
    /\ wd' = [wd EXCEPT ![<<c, s>>] = "done"]
    /\ UNCHANGED <<background_tasks, pc, op, svc, idx, result, did, seen,
                   stopped0, tracked0, outcome, calls>>
    /\ UNCHANGED aux

\* ------------------------------------------------------------------- Next
Next ==
    \/ \E c \in Callers, s \in AllServices : StartService(c, s)
    \/ \E c \in Callers, s \in AllServices : StopService(c, s)
    \/ \E c \in Callers : ManagesRead(c)
    \/ \E c \in Callers : ManagesCompare(c)
    \/ \E c \in Callers : ManagesNotFound(c)
    \/ \E c \in Callers : CheckTaskRead(c)
    \/ \E c \in Callers : CheckTaskAndStatus(c)
    \/ \E c \in Callers : StartWrite(c)
    \/ \E c \in Callers : Boot(c)
    \/ \E c \in Callers, o \in Outcomes : StartRoutineEnds(c, o)
    \/ \E c \in Callers : InsertLock(c)
    \/ \E c \in Callers : InsertRead(c)
    \/ \E c \in Callers : Insert(c)
    \/ \E c \in Callers : InfoRead(c)
    \/ \E c \in Callers : InfoDone(c)
    \/ \E c \in Callers : WarnRead(c)
    \/ \E c \in Callers : WarnDone(c)
    \/ \E c \in Callers : StopWrite(c)
    \/ \E c \in Callers : StopCheck(c)
    \/ \E c \in Callers, o \in Outcomes : StopRoutineEnds(c, o)
    \/ \E c \in Callers, s \in HasTask : TaskEnds(c, s)
    \/ \E c \in Callers, s \in HasTask : Hook(c, s)

Spec == Init /\ [][Next]_vars

\* ------------------------------------------------------------ type check
TypeOK ==
    /\ background_tasks \subseteq AllServices
    /\ \A s \in AllServices : status[s] \in Statuses
    /\ \A c \in Callers : pc[c] \in
          {"idle", "ret", "managed", "compare", "check_task", "check_status",
           "start_write", "boot", "starting", "insert_lock", "insert_read",
           "insert", "info", "info_read", "warn", "warn_read", "stop_write",
           "stop_check", "stopping"}
    /\ calls \in 0..MaxCalls

\* ------------------------------------------------------------ properties
\* The id is in the registered set.
Managed(s) == \E i \in 1..Len(services) : services[i] = s

\* Caller c is back from a call of operation o.
Returned(c, o) == pc[c] = "ret" /\ op[c] = o

\* C1: of the start_service calls racing on a Stopped service exactly one
\* sets Starting and runs the start routine; equivalently, every write of
\* Starting overwrites Stopped.
C1_StartingOnlyFromStopped ==
    [][\A s \in AllServices :
          (status'[s] = "Starting" /\ status[s] # "Starting") => status[s] = "Stopped"]_vars

\* C2: the completion hook writes RuntimeError only over Started, never over
\* Stopped, Stopping, Starting, FailedToStart or FailedToStop.
C2_RuntimeErrorOnlyFromStarted ==
    [][\A s \in AllServices :
          (status'[s] = "RuntimeError" /\ status[s] # "RuntimeError")
              => status[s] = "Started"]_vars

\* C5: a service whose status is FailedToStart, FailedToStop or RuntimeError
\* is never moved to Stopped, Starting, Started or Stopping, so none of its
\* routines is invoked again.
C5_FailedNeverRecovered ==
    [][\A s \in AllServices :
          status[s] \in FailedKinds
              => status'[s] \notin {"Stopped", "Starting", "Started", "Stopping"}]_vars

\* A start_service call on a managed service that found the status other
\* than Stopped both when it was made and when (if ever) it checked it.
StartOnNotStopped(c) ==
    /\ Returned(c, "start_service")
    /\ Managed(svc[c])
    /\ ~stopped0[c]
    /\ seen[c] # "Stopped"

\* C3 (as stated): start_service on a managed service whose status is other
\* than Stopped returns ServiceNotStopped and leaves the status untouched,
\* also after the background work of a started service has ended.
C3_NotStoppedGivesServiceNotStopped ==
    \A c \in Callers :
        StartOnNotStopped(c) => result[c] = "ServiceNotStopped" /\ did[c] = {}

\* C3 (amended): start_service on a managed service whose status is other
\* than Stopped leaves the status untouched and returns
\* BackgroundTaskAlreadyRunning when a handle is tracked for the id and
\* ServiceNotStopped when none is; after a start with background work that
\* has ended (RuntimeError, handle recorded) it returns
\* BackgroundTaskAlreadyRunning.
C3_NotStoppedRejected ==
    \A c \in Callers :
        StartOnNotStopped(c) =>
            /\ did[c] = {}
            /\ result[c] \in {"BackgroundTaskAlreadyRunning", "ServiceNotStopped"}
            /\ tracked0[c] => result[c] = "BackgroundTaskAlreadyRunning"
            /\ svc[c] \notin background_tasks => result[c] = "ServiceNotStopped"

\* C3 witness: a start_service call made on a crashed service whose handle
\* is recorded has returned BackgroundTaskAlreadyRunning.
C3_Witness ==
    \E c \in Callers :
        /\ StartOnNotStopped(c)
        /\ status[svc[c]] = "RuntimeError"
        /\ \E d \in Callers : wd[<<d, svc[c]>>] = "done"
        /\ tracked0[c]
        /\ result[c] = "BackgroundTaskAlreadyRunning"

\* C4: the handle map only grows; a start_service that returned Ok for a
\* service with background work has its id tracked, and every start_service
\* call made once the id is tracked returns BackgroundTaskAlreadyRunning
\* whatever the status is.
C4_HandleMapOnlyGrows ==
    /\ [][background_tasks \subseteq background_tasks']_vars
    /\ [](\A c \in Callers :
            /\ (Returned(c, "start_service") /\ result[c] = "Ok" /\ svc[c] \in HasTask)
                   => svc[c] \in background_tasks
            /\ (Returned(c, "start_service") /\ tracked0[c])
                   => result[c] = "BackgroundTaskAlreadyRunning" /\ did[c] = {})

\* C4 witness: a service was started, then stopped, and a later
\* start_service found it Stopped and returned BackgroundTaskAlreadyRunning.
C4_Witness ==
    \E c \in Callers :
        /\ Returned(c, "start_service")
        /\ tracked0[c]
        /\ stopped0[c]
        /\ status[svc[c]] = "Stopped"
        /\ result[c] = "BackgroundTaskAlreadyRunning"

\* The calls whose start or stop routine is executing on service s.
InFlight(s) == {c \in Callers : svc[c] = s /\ pc[c] \in {"starting", "stopping"}}

\* C6: per service at most one start or stop routine executes at a time,
\* and while the status is Starting or Stopping exactly one routine call, of
\* that kind, is in progress.
C6_OneTransitionInFlight ==
    \A s \in AllServices :
        /\ Cardinality(InFlight(s)) <= 1
        /\ status[s] = "Starting" => \E c \in InFlight(s) : pc[c] = "starting"
        /\ status[s] = "Stopping" => \E c \in InFlight(s) : pc[c] = "stopping"

\* C6 witness: a start routine is running while another call is queued for
\* exclusive access to the same service.
C6_Witness ==
    \E c \in Callers, d \in Callers :
        /\ c # d
        /\ pc[c] = "starting"
        /\ svc[d] = svc[c]
        /\ pc[d] \in {"boot", "stop_check"}
        /\ Waiting(d)

\* C7: start_service on a service that is not registered returns
\* ServiceNotManaged, invokes nothing, spawns and records nothing, and the
\* status of an unregistered service never changes.
C7_UnmanagedStartRejected ==
    /\ [][\A s \in AllServices : ~Managed(s) => status'[s] = status[s]]_vars
    /\ [](\A c \in Callers :
            (Returned(c, "start_service") /\ ~Managed(svc[c]))
                => result[c] = "ServiceNotManaged" /\ did[c] = {})

\* C7 witness: start_service on the unregistered service, which is Stopped,
\* has returned ServiceNotManaged.
C7_Witness ==
    \E c \in Callers :
        /\ Returned(c, "start_service")
        /\ ~Managed(svc[c])
        /\ status[svc[c]] = "Stopped"
        /\ result[c] = "ServiceNotManaged"

\* C8: past the three checks the status is Starting while the start routine
\* runs; when it ends the status is Started on success and the call goes on,
\* and FailedToStart on failure or timeout, the call then returning
\* FailedToStartService with no Watchdog spawned and no handle recorded.
C8_BootOutcome ==
    /\ [](\A c \in Callers :
            /\ pc[c] = "starting" => status[svc[c]] = "Starting"
            /\ (Returned(c, "start_service") /\ result[c] = "FailedToStartService")
                   => /\ outcome[c] \in {"error", "timeout"}
                      /\ did[c] = {"status", "routine"})
    /\ [][\A c \in Callers :
            (pc[c] = "starting" /\ pc'[c] # "starting") =>
                IF outcome'[c] = "ok"
                THEN /\ status'[svc[c]] = "Started"
                     /\ IF svc[c] \in HasTask
                        THEN pc'[c] = "insert_lock"
                        ELSE pc'[c] = "ret" /\ result'[c] = "Ok"
                ELSE /\ outcome'[c] \in {"error", "timeout"}
                     /\ status'[svc[c]] = "FailedToStart"
                     /\ pc'[c] = "ret"
                     /\ result'[c] = "FailedToStartService"
                     /\ wd' = wd
                     /\ background_tasks' = background_tasks]_vars

\* C8 witness: a start routine timed out and the call has returned
\* FailedToStartService with the status FailedToStart.
C8_Witness ==
    \E c \in Callers :
        /\ Returned(c, "start_service")
        /\ outcome[c] = "timeout"
        /\ result[c] = "FailedToStartService"
        /\ status[svc[c]] = "FailedToStart"

\* C9: stop_service on an unregistered service, or on one whose status is
\* not Started, writes no status, invokes no routine and returns no error;
\* no step of stop_service changes the handle map.
C9_StopNoOp ==
    /\ [](\A c \in Callers :
            Returned(c, "stop_service") =>
                /\ result[c] = "unit"
                /\ (~Managed(svc[c]) \/ seen[c] # "Started") => did[c] = {})
    /\ [][\A c \in Callers :
            (op[c] = "stop_service" /\ pc[c] \notin {"idle", "ret"} /\ pc'[c] # pc[c])
                => background_tasks' = background_tasks]_vars

\* C9 witness: stop_service has returned from an unregistered service that
\* is Started and from a registered one it found in RuntimeError.
C9_Witness ==
    \E c \in Callers, d \in Callers :
        /\ Returned(c, "stop_service")
        /\ ~Managed(svc[c])
        /\ status[svc[c]] = "Started"
        /\ Returned(d, "stop_service")
        /\ Managed(svc[d])
        /\ seen[d] = "RuntimeError"

\* C10: stop_service on a managed service it finds Started writes Stopping
\* before the stop routine runs (Stopping is only written over Started), and
\* returns with the status Stopped if the routine succeeded and FailedToStop
\* if it failed or timed out.
C10_StopOutcome ==
    /\ [](\A c \in Callers :
            /\ pc[c] = "stopping" => status[svc[c]] = "Stopping"
            /\ (Returned(c, "stop_service") /\ Managed(svc[c]) /\ seen[c] = "Started")
                   => did[c] = {"status", "routine"} /\ outcome[c] \in Outcomes)
    /\ [][\A s \in AllServices :
            (status'[s] = "Stopping" /\ status[s] # "Stopping") => status[s] = "Started"]_vars
    /\ [][\A c \in Callers :
            (pc[c] = "stopping" /\ pc'[c] # "stopping") =>
                /\ pc'[c] = "ret"
                /\ outcome'[c] \in Outcomes
                /\ status'[svc[c]] =
                       IF outcome'[c] = "ok" THEN "Stopped" ELSE "FailedToStop"]_vars

\* C10 witness: a stop routine timed out and stop_service has returned with
\* the status FailedToStop.
C10_Witness ==
    \E c \in Callers :
        /\ Returned(c, "stop_service")
        /\ seen[c] = "Started"
        /\ outcome[c] = "timeout"
        /\ status[svc[c]] = "FailedToStop"

\* ================================================================ queries
\* The read-only queries of a sealed orchestrator, applied to every service
\* list with pairwise-distinct ids and every status and priority of its
\* members.

\* No two positions of the list hold the same id.
DistinctIds(reg) == \A i, j \in 1..Len(reg) : reg[i].id = reg[j].id => i = j

Registries ==
    {r \in UNION {[1..n -> {Service(i, 1) : i \in AllServices}] :
                     n \in 0..Cardinality(AllServices)} : DistinctIds(r)}

\* The ids of the list.
Ids(reg) == {reg[i].id : i \in 1..Len(reg)}

\* Variant: a service that is starting counts as started.
MatchesStartedOrStarting(st) == st \in {"Started", "Starting"}

\* overall_status line 282: matches!(&*status, Status::Started).
MatchesStarted(st) == st = "Started"

\* overall_status lines 276-287: the loop from position i on returns
\* Unhealthy at the first service that is not Started, Healthy at its end.
RECURSIVE OverallStatusFrom(_, _, _)
OverallStatusFrom(reg, st, i) ==
    IF i > Len(reg) THEN "Healthy"
    ELSE IF ~MatchesStarted(st[reg[i].id]) THEN "Unhealthy"
    ELSE OverallStatusFrom(reg, st, i + 1)

OverallStatus(reg, st) == OverallStatusFrom(reg, st, 1)

\* Variant: only a started service counts as non-failed.
BucketStartedOnly(st, pr) ==
    IF st = "Started"
    THEN IF pr = "Essential" THEN "non_failed_essentials" ELSE "non_failed_optionals"
    ELSE IF st \in FailedKinds
    THEN IF pr = "Essential" THEN "failed_essentials" ELSE "failed_optionals"
    ELSE "others"

\* status_tree lines 307-329: the buffer the match pushes the service's
\* line to.
Bucket(st, pr) ==
    IF st \in {"Started", "Stopped"}
    THEN IF pr = "Essential" THEN "non_failed_essentials" ELSE "non_failed_optionals"
    ELSE IF st \in FailedKinds
    THEN IF pr = "Essential" THEN "failed_essentials" ELSE "failed_optionals"
    ELSE "others"

\* format!(" - {}: {}\n", info.name, status): one line of a bucket.
MemberLine(name, st) == [kind |-> "member", name |-> name, status |-> st]

\* format!("- {}:\n", title): the header line of a bucket.
HeaderLine(title) == [kind |-> "header", name |-> title, status |-> "none"]

\* status_tree lines 301-330: what the loop from position i on pushes to
\* buffer b.
RECURSIVE Buffer(_, _, _, _, _)
Buffer(reg, st, pr, b, i) ==
    IF i > Len(reg) THEN <<>>
    ELSE (IF Bucket(st[reg[i].id], pr[reg[i].id]) = b
          THEN <<MemberLine(reg[i].id, st[reg[i].id])>>
          ELSE <<>>) \o Buffer(reg, st, pr, b, i + 1)

\* status_tree lines 332-355: a non-empty buffer goes to the text after its
\* header; an empty one adds nothing.
Section(title, buf) == IF buf = <<>> THEN <<>> ELSE <<HeaderLine(title)>> \o buf

\* status_tree: the text, as its sequence of lines.
StatusTree(reg, st, pr) ==
    Section("Failed essential services", Buffer(reg, st, pr, "failed_essentials", 1))
    \o Section("Failed optional services", Buffer(reg, st, pr, "failed_optionals", 1))
    \o Section("Essential services", Buffer(reg, st, pr, "non_failed_essentials", 1))
    \o Section("Optional services", Buffer(reg, st, pr, "non_failed_optionals", 1))
    \o Section("Other services", Buffer(reg, st, pr, "others", 1))

\* Everything but the builder and query state.
outsideRegistry == <<mvars, evars, bvars, wvars>>

InitQuery ==
    /\ ManagerIdle
    /\ EventIdle
    /\ BatchIdle
    /\ WatchdogNew
    /\ registry \in Registries
    /\ status \in {f \in [AllServices -> Statuses] :
                      \A s \in AllServices \ Ids(registry) : f[s] = "Stopped"}
    /\ priority \in {f \in [AllServices -> Priorities] :
                      \A s \in AllServices \ Ids(registry) : f[s] = "Essential"}
    /\ offers = registry
    /\ sealed = TRUE
    /\ query = NoQuery

\* A call of overall_status with no status change during it.
OverallStatusCall ==
    /\ query' = [kind |-> "overall_status",
                 value |-> OverallStatus(registry, status)]
    /\ UNCHANGED <<registry, priority, offers, sealed, outsideRegistry>>

\* A call of status_tree with no status change during it.
StatusTreeCall ==
    /\ query' = [kind |-> "status_tree",
                 value |-> StatusTree(registry, status, priority)]
    /\ UNCHANGED <<registry, priority, offers, sealed, outsideRegistry>>

NextQuery ==
    \/ OverallStatusCall
    \/ StatusTreeCall

SpecQuery == InitQuery /\ [][NextQuery]_vars

\* ---------------------------------------------------------------- C11
\* C11: overall_status returns Healthy exactly when every registered
\* service is Started at the time of the call, Unhealthy otherwise; with no
\* registered service it returns Healthy.
C11_HealthyIffAllStarted ==
    query.kind = "overall_status" =>
        /\ query.value \in {"Healthy", "Unhealthy"}
        /\ query.value = "Healthy" <=>
              \A i \in 1..Len(registry) : status[registry[i].id] = "Started"

\* The first service is Started, a later one is not: Unhealthy.
C11_Witness ==
    /\ query.kind = "overall_status"
    /\ Len(registry) >= 2
    /\ status[registry[1].id] = "Started"
    /\ query.value = "Unhealthy"

\* ---------------------------------------------------------------- C18
\* The five headers, in the order of the text.
Headers ==
    <<"Failed essential services", "Failed optional services",
      "Essential services", "Optional services", "Other services">>

Rank(title) == CHOOSE n \in 1..Len(Headers) : Headers[n] = title

\* The header a service with status st and priority pr belongs under.
HeaderFor(st, pr) ==
    IF st \in {"FailedToStart", "FailedToStop", "RuntimeError"}
    THEN (IF pr = "Essential" THEN Headers[1] ELSE Headers[2])
    ELSE IF st \in {"Started", "Stopped"}
    THEN (IF pr = "Essential" THEN Headers[3] ELSE Headers[4])
    ELSE Headers[5]

HeaderPositions(v) == {k \in 1..Len(v) : v[k].kind = "header"}

MemberPositions(v) == {k \in 1..Len(v) : v[k].kind = "member"}

\* The position of the header that line k of the text stands under (0 if none).
Above(v, k) ==
    IF \E j \in HeaderPositions(v) : j < k
    THEN CHOOSE j \in HeaderPositions(v) :
            j < k /\ \A m \in HeaderPositions(v) : m < k => m <= j
    ELSE 0

\* The position in the list of the service that member line k is about.
Registered(reg, v, k) == CHOOSE i \in 1..Len(reg) : reg[i].id = v[k].name

\* C18: the text of status_tree has exactly one member line per registered
\* service, showing its status, under the header of its bucket (failed
\* essential, failed optional, essential, optional, other, by status and
\* priority); the headers present appear once each in that fixed order, each
\* followed by at least one member, so an empty bucket leaves no trace; and
\* the members of a bucket are in registration order.
C18_StatusTreeBuckets ==
    query.kind = "status_tree" =>
        LET v == query.value IN
        /\ \A k \in HeaderPositions(v) :
              /\ \E n \in 1..Len(Headers) : Headers[n] = v[k].name
              /\ k < Len(v) /\ v[k + 1].kind = "member"
        /\ \A j, k \in HeaderPositions(v) :
              j < k => Rank(v[j].name) < Rank(v[k].name)
        /\ Cardinality(MemberPositions(v)) = Len(registry)
        /\ \A i \in 1..Len(registry) :
              \E k \in MemberPositions(v) :
                 /\ v[k].name = registry[i].id
                 /\ v[k].status = status[registry[i].id]
                 /\ Above(v, k) # 0
                 /\ v[Above(v, k)].name =
                       HeaderFor(status[registry[i].id], priority[registry[i].id])
        /\ \A j, k \in MemberPositions(v) :
              (j < k /\ Above(v, j) = Above(v, k)) =>
                 Registered(registry, v, j) < Registered(registry, v, k)

\* Three services in two buckets: the second and third are stopped and
\* started essentials, listed in that order under one header, and the first,
\* which is stopping, comes last under the header of the others.
C18_Witness ==
    /\ query.kind = "status_tree"
    /\ Len(registry) = 3
    /\ status[registry[1].id] = "Stopping"
    /\ query.value =
          <<HeaderLine("Essential services"),
            MemberLine(registry[2].id, "Stopped"),
            MemberLine(registry[3].id, "Started"),
            HeaderLine("Other services"),
            MemberLine(registry[1].id, "Stopping")>>

\* ================================================================ builder
\* Variant: the duplicate check compares the objects, not their ids.
FoundSameObject(reg, o) == \E i \in 1..Len(reg) : reg[i] = o

\* with_service lines 30-37: found, after the loop over the list.
Found(reg, o) == \E i \in 1..Len(reg) : reg[i].id = o.id

\* with_service lines 39-51: the list the builder is returned with.
WithServiceList(reg, o) == IF Found(reg, o) THEN reg ELSE Append(reg, o)

\* manages_service lines 86-92: the loop from position i on.
RECURSIVE ManagesFrom(_, _, _)
ManagesFrom(reg, id, i) ==
    IF i > Len(reg) THEN FALSE
    ELSE IF reg[i].id = id THEN TRUE
    ELSE ManagesFrom(reg, id, i + 1)

ManagesService(reg, id) == ManagesFrom(reg, id, 1)

\* ServiceManagerBuilder::new.
InitBuilder ==
    /\ ManagerIdle
    /\ EventIdle
    /\ BatchIdle
    /\ WatchdogNew
    /\ status = [s \in AllServices |-> "Stopped"]
    /\ priority = [s \in AllServices |-> "Essential"]
    /\ registry = <<>>
    /\ offers = <<>>
    /\ sealed = FALSE
    /\ query = NoQuery

\* with_service(o) on the builder.
WithService(o) ==
    /\ ~sealed
    /\ Len(offers) < MaxOffers
    /\ registry' = WithServiceList(registry, o)
    /\ offers' = Append(offers, o)
    /\ UNCHANGED <<priority, sealed, query, outsideRegistry>>

\* build() consumes the builder; its list becomes the orchestrator's.
Build ==
    /\ ~sealed
    /\ sealed' = TRUE
    /\ UNCHANGED <<registry, priority, offers, query, outsideRegistry>>

\* manages_service(id) on the sealed orchestrator.
ManagesCall(id) ==
    /\ sealed
    /\ query' = [kind |-> "manages_service", id |-> id,
                 value |-> ManagesService(registry, id)]
    /\ UNCHANGED <<registry, priority, offers, sealed, outsideRegistry>>

NextBuilder ==
    \/ \E o \in Offered : WithService(o)
    \/ Build
    \/ \E id \in AllServices : ManagesCall(id)

SpecBuilder == InitBuilder /\ [][NextBuilder]_vars

\* ---------------------------------------------------------------- C12
\* Offer k is the first offer of its id.
IsFirstOffer(k) == \A j \in 1..(k - 1) : offers[j].id # offers[k].id

\* The position in offers of the object at position i of the list.
OfferOf(i) == CHOOSE k \in 1..Len(offers) : IsFirstOffer(k) /\ offers[k] = registry[i]

\* C12: the service list holds pairwise-distinct ids, exactly the first
\* object offered for each id, in the order of those first offers; offering
\* an id that is already present leaves the list unchanged; manages_service
\* is true exactly for the ids offered at least once.
C12_ListIsFirstOffers ==
    /\ [](/\ DistinctIds(registry)
          /\ \A i \in 1..Len(registry) :
                \E k \in 1..Len(offers) : IsFirstOffer(k) /\ offers[k] = registry[i]
          /\ \A k \in 1..Len(offers) :
                IsFirstOffer(k) => \E i \in 1..Len(registry) : registry[i] = offers[k]
          /\ \A i, j \in 1..Len(registry) : i < j => OfferOf(i) < OfferOf(j)
          /\ query.kind = "manages_service" =>
                (query.value <=> \E k \in 1..Len(offers) : offers[k].id = query.id))
    /\ [][(Len(offers') = Len(offers) + 1
            /\ offers'[Len(offers')].id \in Ids(registry)) => registry' = registry]_vars

\* A second object with the id of the first was offered, then a third id;
\* the sealed list holds the first and the third and answers a query.
C12_Witness ==
    /\ sealed
    /\ Len(offers) = 3
    /\ offers[1].id = offers[2].id
    /\ offers[1] # offers[2]
    /\ Len(registry) = 2
    /\ registry[1] = offers[1]
    /\ query.kind = "manages_service"
    /\ query.id = offers[2].id

\* ================================================================== Event
\* One Event<T> (event.rs), its callers, and the tasks that own the
\* receivers open_channel handed out.

\* Everything but the Event state.
outsideEvent == <<mvars, rvars, bvars, wvars>>

\* Variant: the list is locked in shared mode.
MutexModeShared == "r"

\* lines 34, 40, 49, 54: Mutex::lock is exclusive.
MutexMode == "w"

\* c has requested the lock and has not been granted it yet.
Queued(c) == \E i \in 1..Len(mutex.q) : mutex.q[i].p = c

\* Variant: the queue of the channel is unbounded.
HasCapacityAlways(ch) == TRUE

\* line 39 channel(buffer), line 65 send: a value is accepted while fewer
\* than buffer values are queued.
HasCapacity(ch) == Len(ch.buf) < ch.cap

\* Variant: the loop is left at the first failure.
AbortOnFailure(i, n) == n + 1

\* lines 67-71, 78-82: after a failed delivery the loop goes on with the
\* next subscriber.
AfterFailure(i, n) == i + 1

\* s in reverse order.
Reverse(s) == [i \in 1..Len(s) |-> s[Len(s) + 1 - i]]

\* Variant: evictions are applied in the order the failures were recorded.
AscendingOrder(r) == r

\* line 86: subscribers_to_remove.into_iter().rev().
EvictionOrder(r) == Reverse(r)

\* Vec::remove(i): the elements after position i shift left.
RemoveAt(s, i) == [j \in 1..(Len(s) - 1) |-> IF j < i THEN s[j] ELSE s[j + 1]]

\* lines 86-88: remove the positions of r from s, one after the other.
RECURSIVE RemoveAll(_, _)
RemoveAll(s, r) ==
    IF r = <<>> THEN s ELSE RemoveAll(RemoveAt(s, Head(r)), Tail(r))

\* lines 91-95: the value dispatch returns.
DispatchResult(errs) ==
    IF errs = <<>> THEN [kind |-> "Ok"] ELSE [kind |-> "Err", errors |-> errs]

InitEvent ==
    /\ ManagerIdle
    /\ BatchIdle
    /\ WatchdogNew
    /\ status = [s \in AllServices |-> "Stopped"]
    /\ RegistryIdle
    /\ \E flag \in BOOLEAN : EventNew(flag)

\* A call by c returns v and gives the lock back.
ReturnEvent(c, v) ==
    /\ mutex' = Release(mutex, c, MutexMode)
    /\ returned' = [caller |-> c, value |-> v]
    /\ epc' = [epc EXCEPT ![c] = "idle"]

\* The values of the dispatch calls made and not returned yet.
InProgress == {data[c] : c \in {d \in EventCallers : epc[d] \in {"dispatch_lock", "loop"}}}

\* --------------------------------------------------- subscriber_count
\* line 34: request the lock.
SubscriberCount(c) ==
    /\ epc[c] = "idle"
    /\ mutex' = Acquire(mutex, c, MutexMode)
    /\ epc' = [epc EXCEPT ![c] = "count"]
    /\ returned' = NoReturn
    /\ UNCHANGED <<subscribers, remove_subscriber_on_error, channels, received,
                   buffer, data, index, errors, subscribers_to_remove, tried,
                   nsubs, ndispatch, inflight, barred, outsideEvent>>

\* line 35: the length of the list, read under the lock.
CountRead(c) ==
    /\ epc[c] = "count"
    /\ ~Queued(c)
    /\ ReturnEvent(c, [kind |-> "count", count |-> Len(subscribers)])
    /\ UNCHANGED <<subscribers, remove_subscriber_on_error, channels, received,
                   buffer, data, index, errors, subscribers_to_remove, tried,
                   nsubs, ndispatch, inflight, barred, outsideEvent>>

\* ------------------------------------------------------- open_channel
\* Calls that are about to push a subscriber.
Pushing == {c \in EventCallers : epc[c] \in {"open_push", "subscribe_push"}}

\* lines 39-40: create the channel with buffer n, then request the lock.
\* Nobody else holds an end of the channel before the call returns.
\* max bounds the subscribers ever added.
OpenChannel(c, n, max) ==
    /\ epc[c] = "idle"
    /\ nsubs + Cardinality(Pushing) < max
    /\ buffer' = [buffer EXCEPT ![c] = n]
    /\ mutex' = Acquire(mutex, c, MutexMode)
    /\ epc' = [epc EXCEPT ![c] = "open_push"]
    /\ inflight' = [inflight EXCEPT ![c] = InProgress]
    /\ returned' = NoReturn
    /\ UNCHANGED <<subscribers, remove_subscriber_on_error, channels, received,
                   data, index, errors, subscribers_to_remove, tried, nsubs,
                   ndispatch, barred, outsideEvent>>

\* lines 41-42: push the sender, hand the receiver to the caller.
OpenChannelPush(c) ==
    /\ epc[c] = "open_push"
    /\ ~Queued(c)
    /\ nsubs' = nsubs + 1
    /\ subscribers' = Append(subscribers, [id |-> nsubs + 1, kind |-> "Channel"])
    /\ channels' = [channels EXCEPT ![nsubs + 1] =
                       [state |-> "open", cap |-> buffer[c], buf |-> <<>>]]
    /\ buffer' = [buffer EXCEPT ![c] = 0]
    /\ barred' = [barred EXCEPT ![nsubs + 1] = inflight[c]]
    /\ inflight' = [inflight EXCEPT ![c] = {}]
    /\ ReturnEvent(c, [kind |-> "receiver", id |-> nsubs + 1])
    /\ UNCHANGED <<remove_subscriber_on_error, received, data, index, errors,
                   subscribers_to_remove, tried, ndispatch, outsideEvent>>

\* ---------------------------------------------------------- subscribe
\* line 49: request the lock.
Subscribe(c, max) ==
    /\ epc[c] = "idle"
    /\ nsubs + Cardinality(Pushing) < max
    /\ mutex' = Acquire(mutex, c, MutexMode)
    /\ epc' = [epc EXCEPT ![c] = "subscribe_push"]
    /\ inflight' = [inflight EXCEPT ![c] = InProgress]
    /\ returned' = NoReturn
    /\ UNCHANGED <<subscribers, remove_subscriber_on_error, channels, received,
                   buffer, data, index, errors, subscribers_to_remove, tried,
                   nsubs, ndispatch, barred, outsideEvent>>

\* line 50: push the closure.
SubscribePush(c) ==
    /\ epc[c] = "subscribe_push"
    /\ ~Queued(c)
    /\ nsubs' = nsubs + 1
    /\ subscribers' = Append(subscribers, [id |-> nsubs + 1, kind |-> "Closure"])
    /\ barred' = [barred EXCEPT ![nsubs + 1] = inflight[c]]
    /\ inflight' = [inflight EXCEPT ![c] = {}]
    /\ ReturnEvent(c, [kind |-> "unit"])
    /\ UNCHANGED <<remove_subscriber_on_error, channels, received, buffer, data,
                   index, errors, subscribers_to_remove, tried, ndispatch, outsideEvent>>

\* ----------------------------------------------------------- dispatch
\* line 54: request the lock. Every dispatch is given a value of its own;
\* max bounds the dispatch calls ever made.
Dispatch(c, max) ==
    /\ epc[c] = "idle"
    /\ ndispatch < max
    /\ ndispatch' = ndispatch + 1
    /\ data' = [data EXCEPT ![c] = ndispatch + 1]
    /\ mutex' = Acquire(mutex, c, MutexMode)
    /\ epc' = [epc EXCEPT ![c] = "dispatch_lock"]
    /\ returned' = NoReturn
    /\ UNCHANGED <<subscribers, remove_subscriber_on_error, channels, received,
                   buffer, index, errors, subscribers_to_remove, tried, nsubs, inflight, barred, outsideEvent>>

\* lines 55-60: the lock is held; the loop starts at the first subscriber.
DispatchBegin(c) ==
    /\ epc[c] = "dispatch_lock"
    /\ ~Queued(c)
    /\ index' = [index EXCEPT ![c] = 1]
    /\ epc' = [epc EXCEPT ![c] = "loop"]
    /\ returned' = NoReturn
    /\ UNCHANGED <<subscribers, remove_subscriber_on_error, mutex, channels,
                   received, buffer, data, errors, subscribers_to_remove, tried,
                   nsubs, ndispatch, inflight, barred, outsideEvent>>

\* lines 67-71 and 78-82: record the failure of the subscriber at index.
Failed(c, kind) ==
    /\ errors' = [errors EXCEPT ![c] =
                     Append(@, [kind |-> kind, id |-> subscribers[index[c]].id])]
    /\ subscribers_to_remove' =
           [subscribers_to_remove EXCEPT ![c] = Append(@, index[c])]
    /\ tried' = [tried EXCEPT ![c] =
                    Append(@, [id |-> subscribers[index[c]].id, ok |-> FALSE])]
    /\ index' = [index EXCEPT ![c] = AfterFailure(@, Len(subscribers))]

\* The delivery to the subscriber at index succeeded.
Delivered(c) ==
    /\ tried' = [tried EXCEPT ![c] =
                    Append(@, [id |-> subscribers[index[c]].id, ok |-> TRUE])]
    /\ index' = [index EXCEPT ![c] = @ + 1]
    /\ UNCHANGED <<errors, subscribers_to_remove>>

\* lines 64-72: sender.send(data).await on a queue subscriber. It fails when
\* the receiver is closed, completes when the queue has room, and stays
\* suspended (with the lock held) while the queue is full.
Send(c) ==
    /\ epc[c] = "loop"
    /\ index[c] <= Len(subscribers)
    /\ subscribers[index[c]].kind = "Channel"
    /\ LET id == subscribers[index[c]].id
       IN  IF channels[id].state = "closed"
           THEN /\ Failed(c, "ChannelSend")
                /\ UNCHANGED <<channels, received>>
           ELSE /\ HasCapacity(channels[id])
                /\ channels' = [channels EXCEPT ![id].buf = Append(@, data[c])]
                /\ received' = [received EXCEPT ![id] = Append(@, data[c])]
                /\ Delivered(c)
    /\ returned' = NoReturn
    /\ UNCHANGED <<subscribers, remove_subscriber_on_error, mutex, epc, buffer,
                   data, nsubs, ndispatch, inflight, barred, outsideEvent>>

\* lines 75-83: closure(data); ok is what the closure returns.
CallClosure(c, ok) ==
    /\ epc[c] = "loop"
    /\ index[c] <= Len(subscribers)
    /\ subscribers[index[c]].kind = "Closure"
    /\ received' = [received EXCEPT ![subscribers[index[c]].id] = Append(@, data[c])]
    /\ IF ok THEN Delivered(c) ELSE Failed(c, "Closure")
    /\ returned' = NoReturn
    /\ UNCHANGED <<subscribers, remove_subscriber_on_error, mutex, channels, epc,
                   buffer, data, nsubs, ndispatch, inflight, barred, outsideEvent>>

\* The ids of the subscribers that s lost to become s2.
Evicted(s, s2) ==
    {s[i].id : i \in 1..Len(s)} \ {s2[i].id : i \in 1..Len(s2)}

\* lines 85-95: the loop is over; evict if the Event says so, return. The
\* locals of the call are gone. An evicted sender or closure is dropped with
\* its subscriber: what its receiver does from then on never reaches the
\* Event again.
DispatchFinish(c) ==
    /\ epc[c] = "loop"
    /\ index[c] > Len(subscribers)
    /\ subscribers' =
          IF remove_subscriber_on_error
          THEN RemoveAll(subscribers, EvictionOrder(subscribers_to_remove[c]))
          ELSE subscribers
    /\ channels' = [id \in SubscriberIds |->
                       IF id \in Evicted(subscribers, subscribers')
                       THEN [state |-> "dropped", cap |-> 0, buf |-> <<>>]
                       ELSE channels[id]]
    /\ received' = [id \in SubscriberIds |->
                       IF id \in Evicted(subscribers, subscribers')
                       THEN <<>> ELSE received[id]]
    /\ barred' = [id \in SubscriberIds |->
                     IF id \in Evicted(subscribers, subscribers')
                     THEN {} ELSE barred[id] \ {data[c]}]
    /\ inflight' = [d \in EventCallers |-> inflight[d] \ {data[c]}]
    /\ ReturnEvent(c, DispatchResult(errors[c]))
    /\ data' = [data EXCEPT ![c] = 0]
    /\ index' = [index EXCEPT ![c] = 0]
    /\ errors' = [errors EXCEPT ![c] = <<>>]
    /\ subscribers_to_remove' = [subscribers_to_remove EXCEPT ![c] = <<>>]
    /\ tried' = [tried EXCEPT ![c] = <<>>]
    /\ UNCHANGED <<remove_subscriber_on_error, buffer, nsubs, ndispatch,
                   outsideEvent>>

\* ---------------------------------------------------------- receivers
\* The owner of receiver id takes the oldest queued value (Receiver::recv).
Recv(id) ==
    /\ channels[id].state = "open"
    /\ channels[id].buf # <<>>
    /\ channels' = [channels EXCEPT ![id].buf = Tail(@)]
    /\ returned' = NoReturn
    /\ UNCHANGED <<subscribers, remove_subscriber_on_error, mutex, received, epc,
                   buffer, data, index, errors, subscribers_to_remove, tried,
                   nsubs, ndispatch, inflight, barred, outsideEvent>>

\* The owner of receiver id drops it, and the values still queued with it:
\* every later send fails.
CloseReceiver(id) ==
    /\ channels[id].state = "open"
    /\ channels' = [channels EXCEPT ![id] = [@ EXCEPT !.state = "closed", !.buf = <<>>]]
    /\ returned' = NoReturn
    /\ UNCHANGED <<subscribers, remove_subscriber_on_error, mutex, received, epc,
                   buffer, data, index, errors, subscribers_to_remove, tried,
                   nsubs, ndispatch, inflight, barred, outsideEvent>>

\* What the receivers do.
Receivers ==
    \/ \E id \in SubscriberIds : Recv(id)
    \/ \E id \in SubscriberIds : CloseReceiver(id)

\* One caller uses the Event.
SoleCaller == "e1"

NextSoleEvent ==
    \/ \E n \in BufferSizes : OpenChannel(SoleCaller, n, MaxSubscribers)
    \/ OpenChannelPush(SoleCaller)
    \/ Subscribe(SoleCaller, MaxSubscribers)
    \/ SubscribePush(SoleCaller)
    \/ Dispatch(SoleCaller, MaxDispatches)
    \/ DispatchBegin(SoleCaller)
    \/ Send(SoleCaller)
    \/ \E ok \in BOOLEAN : CallClosure(SoleCaller, ok)
    \/ DispatchFinish(SoleCaller)
    \/ Receivers

SpecSoleEvent == InitEvent /\ [][NextSoleEvent]_vars

\* Two callers use the Event concurrently.
NextEvent ==
    \/ \E c \in EventCallers : SubscriberCount(c)
    \/ \E c \in EventCallers : CountRead(c)
    \/ \E c \in EventCallers, n \in BufferSizes : OpenChannel(c, n, MaxRacingSubscribers)
    \/ \E c \in EventCallers : OpenChannelPush(c)
    \/ \E c \in EventCallers : Subscribe(c, MaxRacingSubscribers)
    \/ \E c \in EventCallers : SubscribePush(c)
    \/ \E c \in EventCallers : Dispatch(c, MaxRacingDispatches)
    \/ \E c \in EventCallers : DispatchBegin(c)
    \/ \E c \in EventCallers : Send(c)
    \/ \E c \in EventCallers, ok \in BOOLEAN : CallClosure(c, ok)
    \/ \E c \in EventCallers : DispatchFinish(c)
    \/ Receivers

SpecEvent == InitEvent /\ [][NextEvent]_vars

\* ---------------------------------------------------------------- C13
\* The ids of a list of subscribers or of attempted deliveries, in order.
IdsOf(s) == [i \in 1..Len(s) |-> s[i].id]

\* The kind of error the failure of a subscriber is reported with.
ErrorKind(sub) == IF sub.kind = "Channel" THEN "ChannelSend" ELSE "Closure"

\* The errors a dispatch on subs owes for the attempts tr, from position i.
RECURSIVE ErrorsOwed(_, _, _)
ErrorsOwed(subs, tr, i) ==
    IF i > Len(tr) THEN <<>>
    ELSE IF tr[i].ok THEN ErrorsOwed(subs, tr, i + 1)
    ELSE <<[kind |-> ErrorKind(subs[i]), id |-> subs[i].id]>>
             \o ErrorsOwed(subs, tr, i + 1)

\* c's dispatch returns in this step.
DispatchReturns(c) == epc[c] = "loop" /\ epc'[c] = "idle"

\* C13: a dispatch attempts delivery to every subscriber exactly once, in
\* list order, whatever failed before; it returns Ok exactly when no
\* delivery failed, and otherwise Err with one error per failed delivery,
\* ChannelSend for a queue and Closure for a callback, in list order.
C13_DispatchBestEffort ==
    /\ [](\A c \in EventCallers :
             epc[c] = "loop" =>
                 /\ Len(tried[c]) = index[c] - 1
                 /\ Len(tried[c]) <= Len(subscribers)
                 /\ IdsOf(tried[c]) = SubSeq(IdsOf(subscribers), 1, Len(tried[c])))
    /\ [][\A c \in EventCallers :
             DispatchReturns(c) =>
                 /\ IdsOf(tried[c]) = IdsOf(subscribers)
                 /\ returned'.caller = c
                 /\ returned'.value.kind \in {"Ok", "Err"}
                 /\ returned'.value.kind = "Ok" <=>
                        \A i \in 1..Len(tried[c]) : tried[c][i].ok
                 /\ returned'.value.kind = "Err" =>
                        returned'.value.errors = ErrorsOwed(subscribers, tried[c], 1)]_vars

\* A dispatch over three subscribers has returned two errors, one for a
\* closed queue and one for a callback, with a delivery that succeeded
\* between them.
C13_Witness ==
    /\ returned.caller # "none"
    /\ returned.value.kind = "Err"
    /\ Len(returned.value.errors) = 2
    /\ returned.value.errors[1].kind = "ChannelSend"
    /\ returned.value.errors[2].kind = "Closure"
    /\ returned.value.errors[2].id = returned.value.errors[1].id + 2

\* ---------------------------------------------------------------- C14
\* The subscribers of subs whose delivery, among the attempts tr, succeeded.
Succeeded(subs, tr) ==
    LET Ok(sub) == \E i \in 1..Len(tr) : tr[i].id = sub.id /\ tr[i].ok
    IN  SelectSeq(subs, Ok)

\* The number of failed deliveries among the attempts tr.
Failures(tr) == Cardinality({i \in 1..Len(tr) : ~tr[i].ok})

\* c is inside a dispatch call.
Dispatching(c) == epc[c] \in {"dispatch_lock", "loop"}

\* C14: with eviction enabled, a dispatch leaves exactly the subscribers it
\* delivered to, in their order, so the list shrinks by the number of
\* failed deliveries; every subscriber that is on the list when a dispatch
\* runs, the survivors of an earlier eviction included, is delivered to;
\* with eviction disabled a dispatch leaves the list as it is.
C14_EvictionKeepsSucceeded ==
    [][\A c \in EventCallers :
          /\ DispatchReturns(c) =>
                /\ IdsOf(tried[c]) = IdsOf(subscribers)
                /\ remove_subscriber_on_error =>
                      /\ subscribers' = Succeeded(subscribers, tried[c])
                      /\ Len(subscribers') = Len(subscribers) - Failures(tried[c])
                /\ ~remove_subscriber_on_error => subscribers' = subscribers
          /\ (Dispatching(c) /\ ~DispatchReturns(c)) => subscribers' = subscribers]_vars

\* With eviction enabled, the first and the third of three subscribers were
\* evicted by one dispatch and the next dispatch succeeded on the second.
C14_Witness ==
    /\ remove_subscriber_on_error
    /\ nsubs = 3
    /\ ndispatch = 2
    /\ IdsOf(subscribers) = <<2>>
    /\ returned.caller # "none"
    /\ returned.value.kind = "Ok"
    /\ received[2] = <<1, 2>>

\* ---------------------------------------------------------------- C15
\* The values of a sequence.
Range(s) == {s[i] : i \in 1..Len(s)}

\* v comes before w in s.
Before(s, v, w) ==
    \E i, j \in 1..Len(s) : i < j /\ s[i] = v /\ s[j] = w

\* C15: at most one dispatch is delivering at any time; two values that two
\* subscribers (queue or callback) both receive are received in the same
\* order by both; a subscriber added by a call made while a dispatch was in
\* progress receives nothing of that dispatch.
C15_DispatchesDoNotInterleave ==
    /\ \A c, d \in EventCallers : (epc[c] = "loop" /\ epc[d] = "loop") => c = d
    /\ \A i, j \in SubscriberIds :
          i < j => \A v, w \in Range(received[i]) \cap Range(received[j]) :
                      Before(received[i], v, w) <=> Before(received[j], v, w)
    /\ \A id \in SubscriberIds : barred[id] \cap Range(received[id]) = {}

\* The second dispatch has delivered to the only subscriber, which received
\* the first value before; the other caller made a subscribe or
\* open_channel call after this dispatch began and waits for the list.
C15_Witness ==
    \E c, d \in EventCallers :
        /\ epc[c] = "loop"
        /\ data[c] = 2
        /\ Len(tried[c]) = 1
        /\ received[subscribers[1].id] = <<1, 2>>
        /\ epc[d] \in {"subscribe_push", "open_push"}
        /\ Queued(d)
        /\ inflight[d] = {2}

\* ---------------------------------------------------------------- C20
\* c's dispatch has reached a queue subscriber whose receiver is live and
\* whose queue holds as many values as its buffer size.
Blocked(c) ==
    /\ epc[c] = "loop"
    /\ index[c] <= Len(subscribers)
    /\ subscribers[index[c]].kind = "Channel"
    /\ channels[subscribers[index[c]].id].state = "open"
    /\ Len(channels[subscribers[index[c]].id].buf)
           = channels[subscribers[index[c]].id].cap

\* C20: a queue never holds more values than the buffer size it was opened
\* with; from a state where a dispatch has reached a live, full queue the
\* dispatch makes no progress (it does not return and nobody is delivered
\* to) and no call on the Event returns: only the receiver's consuming or
\* closing ends that state; a dispatch that returns Ok has enqueued its
\* value to every queue subscriber.
C20_Backpressure ==
    /\ [](\A id \in SubscriberIds : Len(channels[id].buf) <= channels[id].cap)
    /\ [][\A c \in EventCallers :
             /\ Blocked(c) =>
                   /\ epc'[c] = "loop"
                   /\ index'[c] = index[c]
                   /\ received' = received
                   /\ returned' = NoReturn
                   /\ (Blocked(c))' \/ channels' # channels
             /\ (DispatchReturns(c) /\ returned'.value.kind = "Ok") =>
                   \A i \in 1..Len(subscribers) :
                       subscribers[i].kind = "Channel" =>
                           data[c] \in Range(received[subscribers[i].id])]_vars

\* A dispatch is suspended at the first of two subscribers, a full queue,
\* while the other caller waits for the list.
C20_Witness ==
    \E c, d \in EventCallers :
        /\ Blocked(c)
        /\ index[c] = 1
        /\ Len(subscribers) = 2
        /\ epc[d] # "idle"
        /\ Queued(d)

\* ======================================================= batch operations
\* start_services and stop_services: loops over the sealed list that call
\* start_service / stop_service, whose steps are the actions of the first
\* part of this module.

outsideBatch == <<rvars, evars, wvars>>

\* Variant: the loop is left after a call that reported a failure.
ContinueIfOk(r) == r \in {"Ok", "unit"}

\* The for loops have no break, return or `?`: they end with the list.
ContinueAfter(r) == TRUE

\* The operation a batch operation calls for each service.
Each(b) == IF b = "start_services" THEN "start_service" ELSE "stop_service"

\* The call on the service at position i of the list begins; start_service
\* and stop_service first request a shared lock on the service.
Invoke(c, b, i) ==
    /\ Begin(c, Each(b), services[i])
    /\ locks' = Lock(locks, services[i], c, "r")
    /\ bidx' = [bidx EXCEPT ![c] = i]
    /\ UNCHANGED <<status, background_tasks, wd, calls>>

\* What the loop body does with the value the call returned.
Collect(c) ==
    IF bop[c] = "start_services" THEN Append(results[c], result[c])
    ELSE results[c]

\* A batch operation b begins: results is empty and the first call is made.
BatchBegin(c, b) ==
    /\ bop[c] = "none"
    /\ batches < MaxBatches
    /\ batches' = batches + 1
    /\ bop' = [bop EXCEPT ![c] = b]
    /\ results' = [results EXCEPT ![c] = <<>>]
    /\ invoked' = [invoked EXCEPT ![c] = <<[op |-> Each(b), svc |-> services[1]]>>]
    /\ Invoke(c, b, 1)
    /\ UNCHANGED outsideBatch

StartServices(c) == BatchBegin(c, "start_services")

StopServices(c) == BatchBegin(c, "stop_services")

\* A call of the loop has returned and the list goes on: the next call.
BatchStep(c) ==
    /\ bop[c] # "none"
    /\ pc[c] = "ret"
    /\ bidx[c] < Len(services)
    /\ ContinueAfter(result[c])
    /\ results' = [results EXCEPT ![c] = Collect(c)]
    /\ invoked' = [invoked EXCEPT ![c] =
                      Append(@, [op |-> Each(bop[c]), svc |-> services[bidx[c] + 1]])]
    /\ Invoke(c, bop[c], bidx[c] + 1)
    /\ UNCHANGED <<bop, batches>>
    /\ UNCHANGED outsideBatch

\* The loop is over: the batch operation returns.
BatchReturn(c) ==
    /\ bop[c] # "none"
    /\ pc[c] = "ret"
    /\ bidx[c] = Len(services) \/ ~ContinueAfter(result[c])
    /\ results' = [results EXCEPT ![c] = Collect(c)]
    /\ bop' = [bop EXCEPT ![c] = "none"]
    /\ UNCHANGED <<mvars, bidx, invoked, batches>>
    /\ UNCHANGED outsideBatch

\* The steps of the calls a batch operation makes. Every service it passes is
\* a member of the list, so the steps of a call on an unmanaged service
\* (ManagesNotFound, WarnRead, WarnDone) cannot occur and are left out.
NextBatch ==
    \/ \E c \in Callers : StartServices(c)
    \/ \E c \in Callers : StopServices(c)
    \/ \E c \in Callers : BatchStep(c)
    \/ \E c \in Callers : BatchReturn(c)
    \/ \E c \in Callers : ManagesRead(c)
    \/ \E c \in Callers : ManagesCompare(c)
    \/ \E c \in Callers : CheckTaskRead(c)
    \/ \E c \in Callers : CheckTaskAndStatus(c)
    \/ \E c \in Callers : StartWrite(c)
    \/ \E c \in Callers : Boot(c)
    \/ \E c \in Callers, o \in Outcomes : StartRoutineEnds(c, o)
    \/ \E c \in Callers : InsertLock(c)
    \/ \E c \in Callers : InsertRead(c)
    \/ \E c \in Callers : Insert(c)
    \/ \E c \in Callers : InfoRead(c)
    \/ \E c \in Callers : InfoDone(c)
    \/ \E c \in Callers : StopWrite(c)
    \/ \E c \in Callers : StopCheck(c)
    \/ \E c \in Callers, o \in Outcomes : StopRoutineEnds(c, o)
    \/ \E c \in Callers, s \in HasTask : TaskEnds(c, s)
    \/ \E c \in Callers, s \in HasTask : Hook(c, s)

SpecBatch == Init /\ [][NextBatch]_vars

\* The calls a batch operation b has made when its loop is at position n.
CallsUpTo(b, n) == [i \in 1..n |-> [op |-> Each(b), svc |-> services[i]]]

BatchReturns(c) == bop[c] # "none" /\ bop'[c] = "none"

LoopAdvances(c) == bop[c] # "none" /\ (bidx'[c] # bidx[c] \/ bop'[c] = "none")

\* C16: start_services calls start_service once per registered service in
\* registration order, whatever the earlier calls returned, and returns one
\* result per service in that order, each the value its call returned;
\* stop_services calls stop_service for every registered service in
\* registration order, whatever the earlier calls did. While a batch
\* operation runs it has called exactly the services up to its position and
\* holds the results of all of them but the current one; when it returns it
\* has called all of them.
C16_BatchCoversEveryService ==
    /\ [](\A c \in Callers :
            bop[c] # "none" =>
              /\ bidx[c] \in 1..Len(services)
              /\ invoked[c] = CallsUpTo(bop[c], bidx[c])
              /\ bop[c] = "start_services" => Len(results[c]) = bidx[c] - 1)
    /\ [][\A c \in Callers :
            /\ BatchReturns(c) =>
                 /\ invoked'[c] = CallsUpTo(bop[c], Len(services))
                 /\ bop[c] = "start_services" => Len(results'[c]) = Len(services)
            /\ (LoopAdvances(c) /\ bop[c] = "start_services") =>
                 /\ pc[c] = "ret"
                 /\ results'[c] = Append(results[c], result[c])]_vars

\* A start_services call has returned whose first call failed and whose
\* second call was made and succeeded.
C16_Witness ==
    \E c \in Callers :
        /\ bop[c] = "none"
        /\ Len(results[c]) = Len(services)
        /\ results[c][1] = "FailedToStartService"
        /\ results[c][2] = "Ok"
        /\ status[services[1]] = "FailedToStart"
        /\ status[services[2]] = "Started"

\* ================================================================ Watchdog
\* The supervisor of one background unit of work: append registers a
\* result-handler, run drives the work to completion and then feeds its
\* terminal result through the handlers.

outsideWatchdog == <<mvars, rvars, evars, bvars>>

\* Variant: the first failing hook ends the chain.
StopAtFailedHook(i, ok, n) == IF ok THEN i + 1 ELSE n + 1

\* A hook failure is logged and the next hook is invoked.
AfterHook(i, ok, n) == i + 1

\* append(hook): the hook goes to the end of the list.
WatchdogAppend(h) ==
    /\ wpc = "new"
    /\ Len(hooks) < MaxHooks
    /\ hooks' = Append(hooks, h)
    /\ UNCHANGED <<work, wpc, hook_index, hook_calls, hook_failures>>
    /\ UNCHANGED outsideWatchdog

\* run(): the Watchdog is consumed and the wrapped work is awaited.
WatchdogRun ==
    /\ wpc = "new"
    /\ wpc' = "work"
    /\ UNCHANGED <<work, hooks, hook_index, hook_calls, hook_failures>>
    /\ UNCHANGED outsideWatchdog

\* The wrapped work completes with its terminal result r.
WorkEnds(r) ==
    /\ wpc = "work"
    /\ work' = r
    /\ wpc' = "hooks"
    /\ hook_index' = 1
    /\ UNCHANGED <<hooks, hook_calls, hook_failures>>
    /\ UNCHANGED outsideWatchdog

\* run() invokes the hook at its position with the result of the work.
HookCall ==
    /\ wpc = "hooks"
    /\ hook_index <= Len(hooks)
    /\ hook_calls' = Append(hook_calls, [hook |-> hooks[hook_index], result |-> work])
    /\ wpc' = "in_hook"
    /\ UNCHANGED <<work, hooks, hook_index, hook_failures>>
    /\ UNCHANGED outsideWatchdog

\* The hook completes, with success or with a failure that is logged.
HookReturns(ok) ==
    /\ wpc = "in_hook"
    /\ hook_failures' = IF ok THEN hook_failures ELSE hook_failures \cup {hook_index}
    /\ hook_index' = AfterHook(hook_index, ok, Len(hooks))
    /\ wpc' = "hooks"
    /\ UNCHANGED <<work, hooks, hook_calls>>
    /\ UNCHANGED outsideWatchdog

\* No hook is left: run() returns.
RunReturns ==
    /\ wpc = "hooks"
    /\ hook_index > Len(hooks)
    /\ wpc' = "done"
    /\ UNCHANGED <<work, hooks, hook_index, hook_calls, hook_failures>>
    /\ UNCHANGED outsideWatchdog

NextWatchdog ==
    \/ \E h \in HookNames : WatchdogAppend(h)
    \/ WatchdogRun
    \/ \E r \in TaskResults : WorkEnds(r)
    \/ HookCall
    \/ \E ok \in BOOLEAN : HookReturns(ok)
    \/ RunReturns

SpecWatchdog == Init /\ [][NextWatchdog]_vars

\* The invocations of the first n hooks, each with the result of the work.
HookCallsUpTo(n) == [i \in 1..n |-> [hook |-> hooks[i], result |-> work]]

\* C17: run() invokes no hook before the wrapped work has completed; then
\* it invokes the appended hooks in registration order, each once and each
\* with the terminal result of the work, whether or not earlier hooks
\* failed; it returns only when every hook has been invoked and has
\* completed, and once that is so nothing else keeps it from returning.
C17_HooksRunInOrderAfterWork ==
    /\ wpc \in {"new", "work"} => (work = "pending" /\ hook_calls = <<>>)
    /\ wpc \in {"hooks", "in_hook", "done"} => work \in TaskResults
    /\ wpc = "hooks" => hook_calls = HookCallsUpTo(hook_index - 1)
    /\ wpc = "in_hook" => hook_calls = HookCallsUpTo(hook_index)
    /\ wpc = "done" => hook_calls = HookCallsUpTo(Len(hooks))
    /\ (wpc = "hooks" /\ Len(hook_calls) = Len(hooks)) => ENABLED RunReturns

\* run() has returned after a failing work, the first of three hooks having
\* failed.
C17_Witness ==
    /\ wpc = "done"
    /\ work = "error"
    /\ Len(hooks) = MaxHooks
    /\ hooks[1] # hooks[2]
    /\ 1 \in hook_failures
    /\ Len(hook_calls) = Len(hooks)

\* ================================================================ fairness
\* The scheduling of the tokio runtime (main.rs line 11, spawn at line 159):
\* every task that can take a step eventually takes one, and the start and
\* stop routines end, by themselves or by their timeout. Nothing makes a caller issue a call and nothing makes a background
\* unit of work end, so StartService, StopService and TaskEnds are left out.
CallerStep(c) ==
    \/ ManagesRead(c)
    \/ ManagesCompare(c)
    \/ ManagesNotFound(c)
    \/ CheckTaskRead(c)
    \/ CheckTaskAndStatus(c)
    \/ StartWrite(c)
    \/ Boot(c)
    \/ \E o \in Outcomes : StartRoutineEnds(c, o)
    \/ InsertLock(c)
    \/ InsertRead(c)
    \/ Insert(c)
    \/ InfoRead(c)
    \/ InfoDone(c)
    \/ WarnRead(c)
    \/ WarnDone(c)
    \/ StopWrite(c)
    \/ StopCheck(c)
    \/ \E o \in Outcomes : StopRoutineEnds(c, o)

Fairness ==
    /\ \A c \in Callers : WF_vars(CallerStep(c))
    /\ \A c \in Callers, s \in HasTask : WF_vars(Hook(c, s))

SpecFair == Init /\ [][Next]_vars /\ Fairness

\* The background unit of work of s, spawned by a successful start, has
\* ended and s is still Started.
EndedWhileStarted(s) ==
    /\ status[s] = "Started"
    /\ \E c \in Callers : wd[<<c, s>>] = "hook"

\* C19: once the background unit of work of a started service has ended
\* with the service still Started, the status of the service eventually is
\* RuntimeError, or at least has left Started by some other call; no new
\* call is needed for that.
C19_EndedTaskIsReported ==
    \A s \in HasTask :
        EndedWhileStarted(s) ~> (status[s] = "RuntimeError" \/ status[s] # "Started")

\* No caller in a call and no hook can take a step, now or ever.
Deadlocked ==
    /\ \A c \in Callers : ~ENABLED CallerStep(c)
    /\ \A c \in Callers, s \in HasTask : ~ENABLED Hook(c, s)

\* Short of a deadlock the ended task is reported: the property of C19 with
\* the deadlocked states let through holds of SpecFair.
ReportedUnlessDeadlocked ==
    \A s \in HasTask :
        EndedWhileStarted(s) ~> (status[s] # "Started" \/ Deadlocked)

\* ------------------------------------------------------------------ C21
\* Caller c is inside a start_service or stop_service call.
InCall(c) == pc[c] \notin {"idle", "ret"}

\* C21: no interleaving of start_service, stop_service and hook executions
\* deadlocks: under fair scheduling and with routines that end, every
\* start_service and stop_service call that was made eventually returns.
C21_EveryCallReturns == \A c \in Callers : InCall(c) ~> pc[c] = "ret"

====
